---- MODULE Spec2Model ----
(***************************************************************************)
(* Model of src/src/model.py: simulate_inventory_po, a periodic-review,    *)
(* order-up-to inventory simulation with Poisson weekly demand.            *)
(*                                                                         *)
(* Numbers.  Python floats are modelled in fixed point: every quantity of  *)
(* stock (on-hand, order quantity, order-up-to level, means) is an integer *)
(* count of 1/Scale units.  Forecast values and Poisson draws are whole    *)
(* units.  Service levels are per-mille (0.95 is 950) and z-scores are     *)
(* thousandths (1.645 is 1645).  NaN is a value of its own.                *)
(***************************************************************************)
EXTENDS Integers, Sequences, FiniteSets, TLC

Scale == 100

NaN == 0 - 999999

\* ------------------------------------------------------------------ bounds

\* longest horizon_weeks of the swept inputs
MaxH == 3

\* most Monte Carlo paths (num_sims) of the swept inputs
MaxSims == 2

\* distance of a low / high Poisson draw from the rate
Spread == 2

\* number of paths of the end-to-end scenario
E2ESims == 3

\* number of calls of simulate_inventory_po in one session (SpecRepeat)
MaxCalls == 2

\* ----------------------------------------------------------------- helpers

\* Python's max(a, b): a unless b > a; every comparison with NaN is false
PyMax(a, b) == IF a = NaN \/ b = NaN THEN a ELSE IF b > a THEN b ELSE a

\* Python's min(a, b) on integers
PyMin(a, b) == IF b < a THEN b ELSE a

RECURSIVE SeqSum(_)
\* np.sum of a sequence (0 for the empty one)
SeqSum(q) == IF q = << >> THEN 0 ELSE Head(q) + SeqSum(Tail(q))

\* seq[:w], Python's slice: a negative w counts from the end
Slice(q, w) ==
    IF w >= 0 THEN SubSeq(q, 1, PyMin(w, Len(q)))
    ELSE SubSeq(q, 1, IF Len(q) + w > 0 THEN Len(q) + w ELSE 0)

RECURSIVE Insert(_, _)
\* x put into the ascending sequence q, after the entries that are <= x
Insert(q, x) ==
    IF q = << >> THEN << x >>
    ELSE IF x < Head(q) THEN << x >> \o q
    ELSE << Head(q) >> \o Insert(Tail(q), x)

RECURSIVE Sorted(_)
\* np.sort of a sequence of numbers
Sorted(q) == IF q = << >> THEN << >> ELSE Insert(Sorted(Tail(q)), Head(q))

\* np.median / np.nanmedian of a sequence without NaN: the middle entry, or
\* the mean of the two middle entries; NaN for the empty sequence
Median(q) ==
    IF q = << >> THEN NaN
    ELSE LET srt == Sorted(q)
             n == Len(q)
         IN IF n % 2 = 1 THEN srt[(n + 1) \div 2]
            ELSE (srt[n \div 2] + srt[n \div 2 + 1]) \div 2

\* np.mean of a sequence of whole units, in 1/Scale units; NaN when empty
Mean(q) == IF q = << >> THEN NaN ELSE (SeqSum(q) * Scale) \div Len(q)

RECURSIVE SqrtIn(_, _, _)
\* the largest r in lo..hi with r * r <= n, by bisection
SqrtIn(n, lo, hi) ==
    IF lo >= hi THEN lo
    ELSE LET mid == (lo + hi + 1) \div 2
         IN IF mid * mid <= n THEN SqrtIn(n, mid, hi) ELSE SqrtIn(n, lo, mid - 1)

\* np.sqrt of x (in 1/Scale units), in 1/Scale units, rounded down
Sqrt(x) == IF x = NaN THEN NaN ELSE SqrtIn(x * Scale, 0, 40000)

\* ------------------------------------------------- _z_from_service_level

\* the lookup table, in the dict's iteration order: << key, z >>
ZTable ==
    << << 800, 842 >>, << 850, 1036 >>, << 900, 1282 >>, << 950, 1645 >>,
       << 970, 1881 >>, << 980, 2054 >>, << 990, 2326 >> >>

AbsDiff(a, b) == IF a >= b THEN a - b ELSE b - a

RECURSIVE NearestFrom(_, _, _)
\* min(keys, key = |k - sl|): the first entry of minimum distance
NearestFrom(i, best, sl) ==
    IF i > Len(ZTable) THEN best
    ELSE NearestFrom(i + 1,
                     IF AbsDiff(ZTable[i][1], sl) < AbsDiff(ZTable[best][1], sl)
                     THEN i ELSE best,
                     sl)

RECURSIVE FarthestFrom(_, _, _)
FarthestFrom(i, best, sl) ==
    IF i > Len(ZTable) THEN best
    ELSE FarthestFrom(i + 1,
                      IF AbsDiff(ZTable[i][1], sl) > AbsDiff(ZTable[best][1], sl)
                      THEN i ELSE best,
                      sl)

\* the slip max(...) for min(...): the key farthest from sl
ZFarthestKey(sl) == ZTable[FarthestFrom(2, 1, sl)][2]

\* z of the table key nearest to sl
ZFromServiceLevel(sl) == ZTable[NearestFrom(2, 1, sl)][2]

\* ------------------------------------------------------ _pick_demand_col

\* the accepted forecast column names, in priority order
DemandCols ==
    << "forecast", "forecast_qty", "pred_demand", "demand_forecast", "units_forecast" >>

\* the first accepted name among the columns, "" when there is none (the
\* code raises instead of returning)
PickDemandCol(columns) ==
    IF \E i \in 1..Len(DemandCols) : DemandCols[i] \in columns
    THEN DemandCols[CHOOSE i \in 1..Len(DemandCols) :
                        /\ DemandCols[i] \in columns
                        /\ \A j \in 1..(i - 1) : DemandCols[j] \notin columns]
    ELSE ""

\* ------------------------------------------------- the Demand Series

RECURSIVE InsertRow(_, _)
InsertRow(rows, r) ==
    IF rows = << >> THEN << r >>
    ELSE IF r.start_date_pred < Head(rows).start_date_pred THEN << r >> \o rows
    ELSE << Head(rows) >> \o InsertRow(Tail(rows), r)

RECURSIVE SortRows(_)
\* df.sort_values("start_date_pred"): ascending, equal dates keep their order
SortRows(rows) ==
    IF rows = << >> THEN << >>
    ELSE InsertRow(SortRows(SubSeq(rows, 1, Len(rows) - 1)), rows[Len(rows)])

\* the rows as simulate_inventory_po reads them
SortedRows(d) ==
    IF "start_date_pred" \in d.columns THEN SortRows(d.rows) ELSE d.rows

RECURSIVE DropNa(_)
\* df[demand_col].dropna().values
DropNa(rows) ==
    IF rows = << >> THEN << >>
    ELSE IF Head(rows).forecast = NaN THEN DropNa(Tail(rows))
    ELSE << Head(rows).forecast >> \o DropNa(Tail(rows))

\* np.pad(obs, (0, n), mode = "edge")
PadEdge(obs, n) == obs \o [i \in 1..n |-> obs[Len(obs)]]

\* the slip of padding with the first observation
PadFirst(obs, horizon) ==
    IF Len(obs) < horizon
    THEN obs \o [i \in 1..(horizon - Len(obs)) |-> obs[1]]
    ELSE Slice(obs, horizon)

\* pad to the horizon with the last observation, or cut at the horizon
FitHorizon(obs, horizon) ==
    IF Len(obs) < horizon THEN PadEdge(obs, horizon - Len(obs))
    ELSE Slice(obs, horizon)

\* initial on-hand, in 1/Scale units
InitialOnhand(d, rows, series) ==
    IF "onhand_units" \in d.columns /\ rows[1].onhand_units # NaN
    THEN rows[1].onhand_units * Scale
    ELSE LET med == Median(series)
         IN PyMax(0, IF med = NaN THEN NaN ELSE med * Scale * 4)

\* ------------------------------------------------------- order-up-to level

MeanWeekly(series) == Mean(series)

\* mean_over(weeks), in whole units
MeanOver(series, weeks, horizon) ==
    IF weeks <= horizon THEN SeqSum(Slice(series, weeks)) ELSE SeqSum(series)

\* sd_lead_review, in 1/Scale units
SdLeadReview(series, p) ==
    LET base_sd_weekly == Sqrt(PyMax(MeanWeekly(series), Scale))
        window == PyMax(p.lead_time_weeks + p.review_period_weeks, 1)
    IN IF base_sd_weekly = NaN THEN NaN
       ELSE (Sqrt(window * Scale) * (base_sd_weekly * (1 + p.safety_factor))) \div Scale

\* order_up_to for a given z, in 1/Scale units
OrderUpToZ(series, p, z) ==
    LET horizon == p.horizon_weeks
        mean_lead_review ==
            MeanOver(series,
                     PyMin(p.lead_time_weeks + p.review_period_weeks, horizon),
                     horizon)
        sd == SdLeadReview(series, p)
    IN IF sd = NaN THEN NaN
       ELSE mean_lead_review * Scale + (z * sd) \div 1000

OrderUpTo(series, p) == OrderUpToZ(series, p, ZFromServiceLevel(p.service_level))

\* ------------------------------------------------------------ random source

\* the values one raw output of the generator can take: a low, a central
\* and a high quantile
Entropy == {0 - Spread, 0, Spread}

\* lam = max(demand_series[t], 0.0)
Lam(forecast) == PyMax(forecast, 0)

\* rng.poisson(lam) read from the raw output u; a rate of 0 gives 0
PoissonSample(lam, u) == IF lam = 0 THEN 0 ELSE PyMax(lam + u, 0)

\* raw outputs rng.poisson(lam) consumes: none for a rate of 0
Consumed(lam) == IF lam = 0 THEN 0 ELSE 1

\* the slip of one module-level generator, which keeps its position
SharedRng(position) == position

\* np.random.default_rng(42): a new generator, at the start of its stream
DefaultRng(position) == 0

\* ------------------------------------------------------------ one week

\* the slip of <= for <
StockoutOrEmpty(after) == after <= 0

\* onhand < 0 after the week's demand
Stockout(after) == after < 0

\* sum(pipeline.values())
PipelineSum(pl) == SeqSum([i \in 1..Cardinality(DOMAIN pl) |->
                              pl[CHOOSE w \in DOMAIN pl :
                                   Cardinality({v \in DOMAIN pl : v < w}) = i - 1]])

\* inv_position = onhand + sum(pipeline.values())
InvPosition(oh, pl) == oh + PipelineSum(pl)

\* the slip of sizing the order against the order-up-to level alone
OrderQtyNoPosition(target, position) == PyMax(0, target)

\* qty = max(0.0, order_up_to - inv_position)
OrderQty(target, position) ==
    IF target = NaN THEN NaN ELSE PyMax(0, target - position)

\* -------------------------------------------------------------- the result

\* stockout_flags.mean(), per mille; NaN without paths
StockoutRisk(flags) ==
    IF flags = << >> THEN NaN ELSE (SeqSum(flags) * 1000) \div Len(flags)

\* inv_paths.mean(axis = 0)[t], in 1/Scale units; NaN without paths
AvgOnhand(paths, w) ==
    IF paths = << >> THEN NaN
    ELSE SeqSum([i \in 1..Len(paths) |-> paths[i][w]]) \div Len(paths)

\* the slip of the unfloored divisor
CoverDivisorRaw(mean) == mean

\* max(mean_weekly, 1.0), the divisor of weeks_of_cover
CoverDivisor(mean) == PyMax(mean, Scale)

\* initial_onhand / divisor, in 1/Scale units
WeeksOfCover(oh, divisor) ==
    IF divisor = NaN THEN NaN ELSE (oh * Scale) \div divisor

\* np.mean, the slip for np.median
MeanQty(q) == IF q = << >> THEN NaN ELSE SeqSum(q) \div Len(q)

\* recommended_po_qty = np.median(first_order_qtys)
RecommendedPoQty(q) == Median(q)

SimTable(paths, series, horizon) ==
    [w \in 1..horizon |->
        [week |-> w, avg_onhand |-> AvgOnhand(paths, w), forecast_demand |-> series[w]]]

\* --------------------------------------------------------------- the state

VARIABLES
    df,               \* the product's row-set: [columns, rows]
    params,           \* SimParams
    pc,               \* position in simulate_inventory_po
    raised,           \* the exception the call ended with: [type, msg], or NoError
    demand_col,       \* local demand_col
    demand_series,    \* local demand_series, whole units
    initial_onhand,   \* local initial_onhand
    mean_weekly,      \* local mean_weekly
    order_up_to,      \* local order_up_to
    inv_paths,        \* local inv_paths, one row per path started
    stockout_flags,   \* local stockout_flags
    first_order_qtys, \* local first_order_qtys
    rng,              \* raw outputs the generator has given out
    stream,           \* the raw outputs of a generator seeded 42, as far as drawn
    s,                \* path index
    t,                \* week index
    onhand,           \* local onhand
    pipeline,         \* local pipeline: arrival week -> quantity
    first_order_qty,  \* local first_order_qty
    inv_position,     \* local inv_position
    qty,              \* local qty
    result,           \* the Result returned, or NoResult
    preclamp,         \* history: onhand - demand of each week of the path, unclamped
    receipts,         \* history: the arrival weeks received in the path, in order
    calls,            \* calls made in the session
    prev              \* history: inputs and outcome of the call before

vars ==
    << df, params, pc, raised, demand_col, demand_series, initial_onhand,
       mean_weekly, order_up_to, inv_paths, stockout_flags, first_order_qtys,
       rng, stream, s, t, onhand, pipeline, first_order_qty, inv_position, qty,
       result, preclamp, receipts, calls, prev >>

NoError == [type |-> "", msg |-> ""]

NoResult == [recommended_po_qty |-> NaN, weeks_of_cover |-> NaN,
             stockout_risk |-> NaN, sim_table |-> << >>, returned |-> FALSE]

NoCall == [made |-> FALSE]

EmptyPipeline == [w \in {} |-> 0]

\* the locals of a call before its first statement
Fresh ==
    /\ pc = "start"
    /\ raised = NoError
    /\ demand_col = ""
    /\ demand_series = << >>
    /\ initial_onhand = 0
    /\ mean_weekly = 0
    /\ order_up_to = 0
    /\ inv_paths = << >>
    /\ stockout_flags = << >>
    /\ first_order_qtys = << >>
    /\ s = 0
    /\ t = 0
    /\ onhand = 0
    /\ pipeline = EmptyPipeline
    /\ first_order_qty = 0
    /\ inv_position = 0
    /\ qty = 0
    /\ result = NoResult
    /\ preclamp = << >>
    /\ receipts = << >>

\* ------------------------------------------------------------- the inputs

Params(h, l, r, sl, sf, n) ==
    [horizon_weeks |-> h, lead_time_weeks |-> l, review_period_weeks |-> r,
     service_level |-> sl, safety_factor |-> sf, num_sims |-> n]

\* rows dated in order, with the forecast values obs and the on-hand oh
Rows(obs, oh) ==
    [i \in 1..Len(obs) |->
        [start_date_pred |-> i, forecast |-> obs[i], onhand_units |-> oh]]

Data(columns, obs, oh) == [columns |-> columns, rows |-> Rows(obs, oh)]

\* the sequences over vals of length lo..hi
SeqsOf(vals, lo, hi) == UNION {[1..n -> vals] : n \in lo..hi}

\* every field swept over valid and invalid values, on one small product
ParamSweep ==
    {[df |-> Data({"asin", "forecast", "onhand_units"}, << 1 >>, 2),
      params |-> Params(h, l, r, sl, sf, 1)] :
        h \in {0 - 1, 0, 1, 2}, l \in {0 - 1, 0, 1}, r \in {0, 1, 2},
        sl \in {0, 950}, sf \in {0 - 1, 0}}
    \cup
    {[df |-> Data({"asin", "forecast", "onhand_units"}, << 1 >>, 2),
      params |-> Params(h, 1, r, 950, 0, n)] :
        h \in {0, 1}, r \in {0, 1}, n \in {0 - 1, 0}}

\* the column sets and the forecast cells swept, on one Parameter Set
DataSweep ==
    {[df |-> [columns |-> cols,
              rows |-> [i \in 1..Len(obs) |->
                           [start_date_pred |-> Len(obs) - i,
                            forecast |-> obs[i], onhand_units |-> oh]]],
      params |-> Params(2, 1, 1, 950, 0, 1)] :
        cols \in SUBSET {"forecast_qty", "units_forecast", "onhand_units",
                         "start_date_pred"},
        obs \in SeqsOf({NaN, 0, 1}, 0, 2), oh \in {NaN, 1}}

\* the observations and the horizon swept
SeriesSweep ==
    {[df |-> Data({"forecast", "onhand_units"}, obs, 3),
      params |-> Params(h, 1, 1, 950, 0, 1)] :
        obs \in SeqsOf({0, 1, 2}, 1, MaxH), h \in 1..MaxH}

\* one path, demand in every week
RolloutSweep ==
    {[df |-> Data({"forecast", "onhand_units"}, obs, oh),
      params |-> Params(h, l, r, 950, 0, 1)] :
        obs \in {<< 1 >>, << 0, 2 >>, << 2, 1 >>}, oh \in {NaN, 0, 3},
        h \in 1..MaxH, l \in 0..2, r \in 1..2}

\* several paths, demand in at most one week
PathSweep ==
    {[df |-> Data({"forecast", "onhand_units"}, obs, oh),
      params |-> Params(h, l, r, 950, sf, n)] :
        obs \in {<< 0 >>, << 2, 0 >>}, oh \in {NaN, 0, 3},
        h \in 1..MaxH, l \in 0..2, r \in 1..2, sf \in {0, 1}, n \in 1..MaxSims}

\* the service levels swept, per mille
ServiceLevels == {500} \cup {5 * i : i \in 156..199}

\* a constant demand series under every service level
PolicySweep ==
    {[df |-> Data({"forecast", "onhand_units"}, << c >>, 2),
      params |-> Params(2, l, 1, sl, sf, 1)] :
        c \in {1, 3}, l \in {0, 1}, sl \in ServiceLevels, sf \in {0, 1}}

Inputs ==
    ParamSweep \cup DataSweep \cup SeriesSweep \cup RolloutSweep \cup PathSweep
        \cup PolicySweep

Init ==
    /\ \E in \in Inputs : df = in.df /\ params = in.params
    /\ Fresh
    /\ rng = 0
    /\ stream = << >>
    /\ calls = 1
    /\ prev = NoCall

\* --------------------------------------------------- simulate_inventory_po

inputs == << df, params >>
session == << calls, prev >>
policy == << demand_col, demand_series, initial_onhand, mean_weekly, order_up_to >>
arrays == << inv_paths, stockout_flags, first_order_qtys >>
path == << onhand, pipeline, first_order_qty, inv_position, qty, preclamp, receipts >>

ValueError(msg) == [type |-> "ValueError", msg |-> msg]

ZeroDivisionError == [type |-> "ZeroDivisionError", msg |-> "modulo by zero"]

\* line 34: raised when no accepted column is present
MissingColumnRaise == ValueError("No forecast/demand column found")

\* line 58: raised when the column holds no usable value
EmptyDemandRaise == ValueError("Demand/forecast column has no usable values")

\* lines 46-53: copy, sort by date, pick the demand column
PickColumn ==
    /\ pc = "start"
    /\ LET col == PickDemandCol(df.columns)
       IN IF col = ""
          THEN /\ raised' = MissingColumnRaise
               /\ pc' = "failed"
               /\ UNCHANGED demand_col
          ELSE /\ demand_col' = col
               /\ pc' = "series"
               /\ UNCHANGED raised
    /\ UNCHANGED << inputs, session, demand_series, initial_onhand, mean_weekly,
                    order_up_to, arrays, rng, stream, s, t, path, result >>

\* lines 56-65: the usable observations, fitted to the horizon
BuildSeries ==
    /\ pc = "series"
    /\ LET obs == DropNa(SortedRows(df))
       IN IF Len(obs) = 0
          THEN /\ raised' = EmptyDemandRaise
               /\ pc' = "failed"
               /\ UNCHANGED demand_series
          ELSE /\ demand_series' = FitHorizon(obs, params.horizon_weeks)
               /\ pc' = "policy"
               /\ UNCHANGED raised
    /\ UNCHANGED << inputs, session, demand_col, initial_onhand, mean_weekly,
                    order_up_to, arrays, rng, stream, s, t, path, result >>

\* lines 67-94: initial on-hand and the order-up-to level
Policy ==
    /\ pc = "policy"
    /\ initial_onhand' = InitialOnhand(df, SortedRows(df), demand_series)
    /\ mean_weekly' = MeanWeekly(demand_series)
    /\ order_up_to' = OrderUpTo(demand_series, params)
    /\ pc' = "alloc"
    /\ UNCHANGED << inputs, session, raised, demand_col, demand_series, arrays,
                    rng, stream, s, t, path, result >>

\* lines 97-102: the arrays (np.zeros refuses a negative dimension) and the
\* generator
Allocate ==
    /\ pc = "alloc"
    /\ IF params.num_sims < 0 \/ params.horizon_weeks < 0
       THEN /\ raised' = ValueError("negative dimensions are not allowed")
            /\ pc' = "failed"
            /\ UNCHANGED << arrays, rng, s >>
       ELSE /\ inv_paths' = << >>
            /\ stockout_flags' = [i \in 1..params.num_sims |-> 0]
            /\ first_order_qtys' = << >>
            /\ rng' = DefaultRng(rng)
            /\ s' = 0
            /\ pc' = "path"
            /\ UNCHANGED raised
    /\ UNCHANGED << inputs, session, policy, stream, t, path, result >>

\* lines 104-108: the next path starts from the initial on-hand
StartPath ==
    /\ pc = "path"
    /\ s < params.num_sims
    /\ onhand' = initial_onhand
    /\ pipeline' = EmptyPipeline
    /\ first_order_qty' = 0
    /\ t' = 0
    /\ inv_paths' = Append(inv_paths, [w \in 1..params.horizon_weeks |-> 0])
    /\ preclamp' = << >>
    /\ receipts' = << >>
    /\ pc' = "week"
    /\ UNCHANGED << inputs, session, raised, policy, stockout_flags,
                    first_order_qtys, rng, stream, s, inv_position, qty, result >>

\* lines 110-113: receive the order that arrives in week t
Receive ==
    /\ pc = "week"
    /\ t < params.horizon_weeks
    /\ IF t \in DOMAIN pipeline
       THEN /\ onhand' = onhand + pipeline[t]
            /\ receipts' = Append(receipts, t)
       ELSE UNCHANGED << onhand, receipts >>
    /\ pc' = "demand"
    /\ UNCHANGED << inputs, session, raised, policy, arrays, rng, stream, s, t,
                    pipeline, first_order_qty, inv_position, qty, preclamp,
                    result >>

\* lines 116-123: draw the week's demand and consume it
Consume ==
    /\ pc = "demand"
    /\ LET lam == Lam(demand_series[t + 1])
           used == Consumed(lam)
       IN \E u \in IF rng + used <= Len(stream)
                  THEN {IF used = 0 THEN 0 ELSE stream[rng + 1]}
                  ELSE Entropy :
            LET after == onhand - PoissonSample(lam, u) * Scale
            IN /\ stream' = IF rng + used <= Len(stream) THEN stream
                            ELSE Append(stream, u)
               /\ rng' = rng + used
               /\ preclamp' = Append(preclamp, after)
               /\ IF Stockout(after)
                  THEN /\ stockout_flags' = [stockout_flags EXCEPT ![s + 1] = 1]
                       /\ onhand' = 0
                  ELSE /\ onhand' = after
                       /\ UNCHANGED stockout_flags
    /\ pc' = "review"
    /\ UNCHANGED << inputs, session, raised, policy, inv_paths, first_order_qtys,
                    s, t, pipeline, first_order_qty, inv_position, qty, receipts,
                    result >>

\* lines 126-129: on a review week, the inventory position and the quantity
Review ==
    /\ pc = "review"
    /\ IF params.review_period_weeks = 0
       THEN /\ raised' = ZeroDivisionError
            /\ pc' = "failed"
            /\ UNCHANGED << inv_position, qty >>
       ELSE IF t % params.review_period_weeks = 0
       THEN /\ inv_position' = InvPosition(onhand, pipeline)
            /\ qty' = OrderQty(order_up_to, InvPosition(onhand, pipeline))
            /\ pc' = "order"
            /\ UNCHANGED raised
       ELSE /\ pc' = "record"
            /\ UNCHANGED << raised, inv_position, qty >>
    /\ UNCHANGED << inputs, session, policy, arrays, rng, stream, s, t, onhand,
                    pipeline, first_order_qty, preclamp, receipts, result >>

\* lines 131-136: put the order in flight; the week-0 quantity is the path's
\* first order quantity
PlaceOrder ==
    /\ pc = "order"
    /\ LET arrival_week == t + params.lead_time_weeks
       IN IF qty > 0 /\ arrival_week < params.horizon_weeks
          THEN pipeline' =
                  [w \in DOMAIN pipeline \cup {arrival_week} |->
                      IF w = arrival_week
                      THEN (IF w \in DOMAIN pipeline THEN pipeline[w] ELSE 0) + qty
                      ELSE pipeline[w]]
          ELSE UNCHANGED pipeline
    /\ first_order_qty' = IF t = 0 THEN qty ELSE first_order_qty
    /\ pc' = "record"
    /\ UNCHANGED << inputs, session, raised, policy, arrays, rng, stream, s, t,
                    onhand, inv_position, qty, preclamp, receipts, result >>

\* line 138: the week's on-hand goes into the path's trajectory
Record ==
    /\ pc = "record"
    /\ inv_paths' = [inv_paths EXCEPT ![s + 1][t + 1] = onhand]
    /\ t' = t + 1
    /\ pc' = "week"
    /\ UNCHANGED << inputs, session, raised, policy, stockout_flags,
                    first_order_qtys, rng, stream, s, path, result >>

\* line 140: the path is over
EndPath ==
    /\ pc = "week"
    /\ t >= params.horizon_weeks
    /\ first_order_qtys' = Append(first_order_qtys, first_order_qty)
    /\ s' = s + 1
    /\ pc' = "path"
    /\ UNCHANGED << inputs, session, raised, policy, inv_paths, stockout_flags,
                    rng, stream, t, path, result >>

\* lines 142-161: the Result
Aggregate ==
    /\ pc = "path"
    /\ s >= params.num_sims
    /\ LET divisor == CoverDivisor(mean_weekly)
       IN IF divisor = 0
          THEN /\ raised' = [type |-> "ZeroDivisionError",
                             msg |-> "float division by zero"]
               /\ pc' = "failed"
               /\ UNCHANGED result
          ELSE /\ result' =
                     [recommended_po_qty |-> RecommendedPoQty(first_order_qtys),
                      weeks_of_cover |-> WeeksOfCover(initial_onhand, divisor),
                      stockout_risk |-> StockoutRisk(stockout_flags),
                      sim_table |-> SimTable(inv_paths, demand_series,
                                             params.horizon_weeks),
                      returned |-> TRUE]
               /\ pc' = "done"
               /\ UNCHANGED raised
    /\ UNCHANGED << inputs, session, policy, arrays, rng, stream, s, t, path >>

Next ==
    \/ PickColumn
    \/ BuildSeries
    \/ Policy
    \/ Allocate
    \/ StartPath
    \/ Receive
    \/ Consume
    \/ Review
    \/ PlaceOrder
    \/ Record
    \/ EndPath
    \/ Aggregate

Spec == Init /\ [][Next]_vars

\* ------------------------------------------------- a session of calls

\* the inputs of a session that calls the engine again
RepeatInputs ==
    {[df |-> Data({"forecast", "onhand_units"}, obs, 3),
      params |-> Params(2, 1, r, 950, 0, n)] :
        obs \in {<< 2 >>, << 2, 0 >>}, r \in 0..1, n \in 1..2}

InitRepeat ==
    /\ \E in \in RepeatInputs : df = in.df /\ params = in.params
    /\ Fresh
    /\ rng = 0
    /\ stream = << >>
    /\ calls = 1
    /\ prev = NoCall

\* app.py lines 92-104: the caller runs the engine again; the locals of the
\* call before are gone, the position of its generator is left as it was
Reinvoke ==
    /\ pc \in {"done", "failed"}
    /\ calls < MaxCalls
    /\ calls' = calls + 1
    /\ prev' = [made |-> TRUE, df |-> df, params |-> params, raised |-> raised,
                result |-> result]
    /\ \E in \in RepeatInputs : df' = in.df /\ params' = in.params
    /\ pc' = "start"
    /\ raised' = NoError
    /\ demand_col' = ""
    /\ demand_series' = << >>
    /\ initial_onhand' = 0
    /\ mean_weekly' = 0
    /\ order_up_to' = 0
    /\ inv_paths' = << >>
    /\ stockout_flags' = << >>
    /\ first_order_qtys' = << >>
    /\ s' = 0
    /\ t' = 0
    /\ onhand' = 0
    /\ pipeline' = EmptyPipeline
    /\ first_order_qty' = 0
    /\ inv_position' = 0
    /\ qty' = 0
    /\ result' = NoResult
    /\ preclamp' = << >>
    /\ receipts' = << >>
    /\ UNCHANGED << rng, stream >>

NextRepeat == Next \/ Reinvoke

SpecRepeat == InitRepeat /\ [][NextRepeat]_vars

\* ------------------------------------------------ the end-to-end scenario

\* demand constant at 10 a week for 26 weeks, lead time 8, weekly review,
\* service level 0.95, safety factor 0, 80 on hand
Scenario ==
    [df |-> Data({"forecast", "onhand_units"}, [i \in 1..26 |-> 10], 80),
     params |-> Params(26, 8, 1, 950, 0, E2ESims)]

\* the raw outputs explored for the scenario: every value in week 0 of each
\* path, the central one in the weeks after
ScenarioStreams ==
    {[i \in 1..(E2ESims * 26) |-> IF i % 26 = 1 THEN w0[(i - 1) \div 26 + 1] ELSE 0] :
        w0 \in [1..E2ESims -> Entropy]}

InitE2E ==
    /\ df = Scenario.df
    /\ params = Scenario.params
    /\ Fresh
    /\ rng = 0
    /\ stream \in ScenarioStreams
    /\ calls = 1
    /\ prev = NoCall

SpecE2E == InitE2E /\ [][Next]_vars

\* ---------------------------------------------------------------- claims

\* the constraints of the Parameter Set
ValidParams(p) ==
    /\ p.horizon_weeks >= 1
    /\ p.num_sims >= 1
    /\ p.review_period_weeks >= 1
    /\ p.lead_time_weeks >= 0
    /\ p.service_level > 0 /\ p.service_level < 1000
    /\ p.safety_factor >= 0

\* positions inside the week loop of a path
InWeek == pc \in {"week", "demand", "review", "order", "record"}

\* positions after the Demand Series was built
SeriesBuilt ==
    pc \in {"policy", "alloc", "path", "week", "demand", "review", "order",
            "record", "done"}

\* positions after the order-up-to level was computed
PolicyDone ==
    pc \in {"alloc", "path", "week", "demand", "review", "order", "record", "done"}

\* the usable observations of the product data
Observations == DropNa(SortedRows(df))

\* C1: a call whose Parameter Set violates a constraint runs no rollout step,
\* returns no Result, and ends with InvalidParameterError and with no other
\* failure.
C1_InvalidParamsRejected ==
    ~ValidParams(params) =>
        /\ ~InWeek
        /\ pc # "done"
        /\ ~result.returned
        /\ (pc = "failed" => raised.type = "InvalidParameterError")

\* C2: product data with none of the accepted forecast columns ends the call
\* with MissingColumnError, a kind other than the one raised for a column
\* without usable values, and no Result is returned.
C2_MissingColumnTyped ==
    (PickDemandCol(df.columns) = "" /\ pc # "start") =>
        /\ pc = "failed"
        /\ ~result.returned
        /\ raised.type = "MissingColumnError"
        /\ raised.type # EmptyDemandRaise.type

IsScenario == df = Scenario.df /\ params = Scenario.params

\* the demand drawn in week 0 of path k of the scenario: every week draws
\* one raw output, so week 0 of path k reads output (k - 1) * horizon + 1
Week0Draw(k) ==
    PoissonSample(Lam(demand_series[1]), stream[(k - 1) * params.horizon_weeks + 1])

\* |x - centre| <= 15% of centre
Within15(x, centre) == AbsDiff(x, centre) * 100 <= 15 * centre

\* C3 as stated: in the end-to-end scenario the order-up-to level is about
\* 105.6 and recommended_po_qty lies within 15% of
\* max(0, order_up_to - (80 + 0)), about 25.6.
C3_RecommendedNearInitialGap ==
    (IsScenario /\ pc = "done") =>
        /\ AbsDiff(order_up_to, 10560) <= 10
        /\ Within15(result.recommended_po_qty,
                    PyMax(0, order_up_to - (80 * Scale + 0)))

\* C3 as amended: in the end-to-end scenario the order-up-to level is about
\* 105.6 and recommended_po_qty lies within 15% of
\* max(0, order_up_to - ((80 - d) + 0)), where d is the median over the paths
\* of the demand drawn in week 0: the first order is sized against the
\* on-hand left after week 0's demand (about 35.6 for d = 10).
C3_RecommendedNearPostDemandGap ==
    (IsScenario /\ pc = "done") =>
        LET d == Median([k \in 1..params.num_sims |-> Week0Draw(k)])
        IN /\ AbsDiff(order_up_to, 10560) <= 10
           /\ Within15(result.recommended_po_qty,
                       PyMax(0, order_up_to - ((80 - d) * Scale + 0)))

\* C3 witness: the scenario has returned, the median week-0 draw is 10 and
\* the recommendation is within 15% of 35.6.
C3_Witness ==
    /\ IsScenario /\ pc = "done"
    /\ Median([k \in 1..params.num_sims |-> Week0Draw(k)]) = 10
    /\ \E k \in 1..params.num_sims : Week0Draw(k) # 10
    /\ Within15(result.recommended_po_qty, 3560)

\* C4: a call with the Parameter Set and product data of the call before it
\* (and the same seed, 42) ends as that call did: the same Result
\* (sim_table, stockout_risk, recommended_po_qty), the same failure.
C4_Deterministic ==
    (pc \in {"done", "failed"} /\ prev.made /\ prev.df = df /\ prev.params = params) =>
        /\ result = prev.result
        /\ raised = prev.raised

\* C4 witness: a second call with the inputs of the first has returned, both
\* paths drew demand, and at least one path stocked out.
C4_Witness ==
    /\ pc = "done" /\ prev.made /\ prev.df = df /\ prev.params = params
    /\ params.num_sims = 2
    /\ rng >= 2
    /\ result.stockout_risk > 0
    /\ \E i \in 1..Len(stream) : stream[i] # 0

ZeroSeries == \A i \in 1..Len(demand_series) : demand_series[i] = 0

\* C5: with a valid Parameter Set, a Demand Series of zeros and non-negative
\* initial on-hand, no path sets its stockout flag, the call raises nothing
\* (no division error) and the Result has stockout_risk 0 and a
\* weeks_of_cover.
C5_ZeroDemandNoStockout ==
    /\ (ValidParams(params) /\ PolicyDone /\ ZeroSeries /\ initial_onhand >= 0) =>
           (/\ \A i \in 1..Len(stockout_flags) : stockout_flags[i] = 0
            /\ onhand >= 0)
    /\ (ValidParams(params) /\ demand_series # << >> /\ ZeroSeries
           /\ initial_onhand >= 0) =>
           (/\ raised = NoError
            /\ (pc = "done" =>
                   (/\ result.stockout_risk = 0
                    /\ result.weeks_of_cover = initial_onhand)))

\* C5 witness: a call on a zero Demand Series has returned after its last
\* path placed an order and received it.
C5_Witness ==
    /\ pc = "done" /\ ValidParams(params) /\ ZeroSeries
    /\ receipts # << >>
    /\ result.stockout_risk = 0

\* C6: for h >= 1 usable observations and horizon_weeks >= 1 the Demand
\* Series has length horizon_weeks, starts with the first
\* min(h, horizon_weeks) observations in order, and, if h < horizon_weeks,
\* ends with horizon_weeks - h copies of the last observation.
C6_SeriesFitsHorizon ==
    (SeriesBuilt /\ params.horizon_weeks >= 1) =>
        LET obs == Observations
            h == Len(obs)
        IN /\ h >= 1
           /\ Len(demand_series) = params.horizon_weeks
           /\ \A i \in 1..PyMin(h, params.horizon_weeks) : demand_series[i] = obs[i]
           /\ \A i \in (h + 1)..params.horizon_weeks : demand_series[i] = obs[h]

\* C6 witness: a series padded from two unequal observations to three weeks.
C6_Witness ==
    /\ SeriesBuilt
    /\ Len(Observations) = 2
    /\ Observations[1] # Observations[2]
    /\ params.horizon_weeks = 3
    /\ demand_series[3] = Observations[2]

ConstantSeries ==
    \A i, j \in 1..Len(demand_series) : demand_series[i] = demand_series[j]

WithServiceLevel(p, sl) == [p EXCEPT !.service_level = sl]

\* C7: with safety_factor 0 and a constant Demand Series, once the
\* order-up-to level is computed for service level a, any service level
\* b >= a gives z(b) >= z(a) and an order-up-to level no smaller.
C7_OrderUpToMonotone ==
    (pc = "alloc" /\ ValidParams(params) /\ params.safety_factor = 0
        /\ ConstantSeries) =>
        \A b \in ServiceLevels :
            (b >= params.service_level) =>
                (/\ ZFromServiceLevel(b) >= ZFromServiceLevel(params.service_level)
                 /\ OrderUpTo(demand_series, WithServiceLevel(params, b)) >= order_up_to)

\* C7 witness: an order-up-to level was computed under a service level for
\* which a higher one gives a strictly larger level.
C7_Witness ==
    /\ pc = "alloc" /\ ValidParams(params) /\ params.safety_factor = 0
    /\ ConstantSeries
    /\ params.service_level = 900
    /\ order_up_to > 0
    /\ \E b \in ServiceLevels :
          /\ b > params.service_level
          /\ OrderUpTo(demand_series, WithServiceLevel(params, b)) > order_up_to

\* the in-flight quantities of the orders not received so far in the path
Unreceived(pl, rc) ==
    PipelineSum([w \in {x \in DOMAIN pl : \A i \in 1..Len(rc) : rc[i] # x} |-> pl[w]])

\* C8: at every review the inventory position is on-hand plus the in-flight
\* quantities not yet received; a received quantity is in on-hand only.
C8_PositionCountsOnlyInFlight ==
    (pc = "order" /\ ValidParams(params)) =>
        inv_position = onhand + Unreceived(pipeline, receipts)

\* the flag of the path the history variables describe
PathFlag == IF InWeek THEN stockout_flags[s + 1] ELSE stockout_flags[s]

HasPath == InWeek \/ (pc \in {"path", "done"} /\ s >= 1)

\* C9 (state part): a path's stockout flag is set exactly when some week of
\* it ended below zero before clamping; such a week leaves on-hand at exactly
\* 0, in the trajectory too, and any other week leaves what remained.
C9_FlagIffWentNegative ==
    HasPath =>
        /\ (PathFlag = 1 <=> \E i \in 1..Len(preclamp) : preclamp[i] < 0)
        /\ onhand >= 0
        /\ \A i \in 1..Len(preclamp) :
              LET left == IF preclamp[i] < 0 THEN 0 ELSE preclamp[i]
              IN /\ ((i = Len(preclamp) /\ pc \in {"review", "order", "record"})
                       => onhand = left)
                 /\ ((i < Len(preclamp) \/ pc \in {"week", "demand", "path", "done"})
                       => inv_paths[IF InWeek THEN s + 1 ELSE s][i] = left)

\* C9: the state part in every state, and a flag once set is never cleared
\* during the call.
C9_StockoutFlagExact ==
    /\ []C9_FlagIffWentNegative
    /\ [][\A i \in 1..Len(stockout_flags) :
             stockout_flags[i] = 1 =>
                 (Len(stockout_flags') >= i /\ stockout_flags'[i] = 1)]_vars

\* C9 witness: a path has ended that stocked out in one week and kept stock
\* in a later one.
C9_Witness ==
    /\ pc = "path" /\ s >= 1 /\ stockout_flags[s] = 1
    /\ \E i, j \in 1..Len(preclamp) : i < j /\ preclamp[i] < 0 /\ preclamp[j] > 0

\* the number of times the order arriving in week w was received
TimesReceived(w) == Cardinality({i \in 1..Len(receipts) : receipts[i] = w})

\* C10: when a path ends, every order in the in-flight mapping was added to
\* on-hand exactly once, whatever the lead time >= 0.
C10_EveryOrderReceivedOnce ==
    (pc = "week" /\ t >= params.horizon_weeks /\ ValidParams(params)) =>
        \A w \in DOMAIN pipeline : TimesReceived(w) = 1

====
